---- MODULE Spec2Model ----
(***************************************************************************)
(* Model of rio's quad renderer, rio/src/renderer/quad/mod.rs.             *)
(*                                                                         *)
(* Pipeline::draw records commands into a caller-provided command encoder: *)
(* one staged copy into the uniform buffer, then per chunk of at most      *)
(* MAX_INSTANCES quads one staged copy into the instance buffer (offset 0) *)
(* and one render pass with one indexed, instanced draw.  The encoder is a *)
(* sequence of commands; Execute replays it in recorded order on the GPU   *)
(* state (uniform buffer, instance buffer, target) the way wgpu executes a *)
(* submitted command buffer.                                               *)
(*                                                                         *)
(* Abstractions.  A Quad keeps a 1-D position and size, one colour channel *)
(* and the alpha of its fill colour (the other fields are copied the same  *)
(* way and never inspected by mod.rs).  Colour and alpha are fixed point:  *)
(* ALPHA_ONE stands for 1.0.  A 4x4 matrix is a 16-tuple of the literals   *)
(* of its entries.  MAX_INSTANCES is 100_000 in the source (line 309) and  *)
(* is scaled down here; every property is stated in terms of it.           *)
(***************************************************************************)
EXTENDS Integers, Sequences, FiniteSets

\* ---------------------------------------------------------------- bounds

\* Chunk capacity.  The source has 100_000 (mod.rs:309); scaled down.
MAX_INSTANCES == 2

\* Largest number of quads recorded into one command encoder (one frame).
MaxLen == 5

\* The draw calls recorded into one command encoder.
CallIds == {1, 2}

\* Fixed-point levels of a colour's alpha: 0 is transparent, the largest 1.0.
AlphaLevels == {0, 2, 4}

ALPHA_ONE == CHOOSE a \in AlphaLevels : \A b \in AlphaLevels : b <= a

Pixels == {0, 1}

\* -------------------------------------------------------------- data model

\* struct Quad (mod.rs:9-29), abstracted.  The quads a caller draws: A is
\* translucent over pixel 0, B opaque over pixels 0 and 1, T fully transparent
\* over pixel 1.
QuadSet ==
    { [position |-> 0, size |-> 1, color |-> 4, alpha |-> 2],
      [position |-> 0, size |-> 2, color |-> 2, alpha |-> ALPHA_ONE],
      [position |-> 1, size |-> 1, color |-> 4, alpha |-> 0] }

\* Quad::default() / the zero bytes of a freshly created buffer.
ZeroQuad == [position |-> 0, size |-> 0, color |-> 0, alpha |-> 0]

\* mem::size_of::<Quad>(): 17 f32 fields, repr(C).
SizeOfQuad == 4 * (2 + 2 + 4 + 4 + 4 + 1)

\* const QUAD_INDICES (mod.rs:292).
QUAD_INDICES == <<0, 1, 2, 0, 2, 3>>

\* The literal matrix of mod.rs:215.
A_MATRIX ==
    << "0.001510574", "0.0", "0.0", "0.0",
       "0.0", "-0.002283105", "0.0", "0.0",
       "0.0", "0.0", "1.0", "0.0",
       "-1.0", "1.0", "0.0", "1.0" >>

\* Transformation::identity().
IDENTITY ==
    << "1.0", "0.0", "0.0", "0.0",
       "0.0", "1.0", "0.0", "0.0",
       "0.0", "0.0", "1.0", "0.0",
       "0.0", "0.0", "0.0", "1.0" >>

\* The (transformation, scale) arguments a caller passes.
CallArgs ==
    { [transformation |-> IDENTITY, scale |-> 1],
      [transformation |-> A_MATRIX, scale |-> 2] }

\* Uniforms::new (mod.rs:322-328).
UniformsNew(transformation, s) ==
    [transform |-> transformation, scale |-> s, padding |-> <<0, 0, 0>>]

\* Uniforms::from_a (mod.rs:330-336).
UniformsFromA(transformation, s) ==
    [transform |-> transformation, scale |-> s, padding |-> <<0, 0, 0>>]

\* The zero bytes of the freshly created uniform buffer (mod.rs:82-87).
ZeroUniforms ==
    [transform |-> [k \in 1..16 |-> "0.0"], scale |-> 0, padding |-> <<0, 0, 0>>]

\* Size in quads -> bytes of the instance buffer created by Pipeline::new.
InstanceBufferSize == SizeOfQuad * MAX_INSTANCES

Min(a, b) == IF a <= b THEN a ELSE b

SeqsUpTo(S, n) == UNION { [1..k -> S] : k \in 0..n }

\* ------------------------------------------------------------------- state

VARIABLES
    pc,        \* position inside Pipeline::draw, "idle" between calls
    calls,     \* the arguments of the draw calls made so far, in order
    uniforms,  \* local `uniforms` of the running call
    i,         \* local `i`
    total,     \* local `total`
    end,       \* local `end`
    amount,    \* local `amount`
    encoder,   \* the commands recorded into the command encoder
    gpu        \* the GPU state that executing the encoder's commands gives

vars == <<pc, calls, uniforms, i, total, end, amount, encoder, gpu>>

\* The running (or last) call and its arguments.
call == Len(calls)
args == calls[call]

RecordedQuads == LET RECURSIVE Sum(_)
                     Sum(k) == IF k = 0 THEN 0 ELSE Len(calls[k].instances) + Sum(k - 1)
                 IN Sum(Len(calls))

\* ------------------------------------------ execution of the command encoder

\* Faulty variant of the blend state: additive colour (dst_factor One).
BlendStateAdditive ==
    [color |-> [src_factor |-> "SrcAlpha", dst_factor |-> "One",
                operation |-> "Add"],
     alpha |-> [src_factor |-> "One", dst_factor |-> "OneMinusSrcAlpha",
                operation |-> "Add"]]

\* Blend state of the pipeline's colour target (Pipeline::new).
BlendState ==
    [color |-> [src_factor |-> "SrcAlpha", dst_factor |-> "OneMinusSrcAlpha",
                operation |-> "Add"],
     alpha |-> [src_factor |-> "One", dst_factor |-> "OneMinusSrcAlpha",
                operation |-> "Add"]]

\* A wgpu::BlendFactor, in fixed point, for a source of alpha srcAlpha.
BlendFactor(factor, srcAlpha) ==
    CASE factor = "One" -> ALPHA_ONE
      [] factor = "Zero" -> 0
      [] factor = "SrcAlpha" -> srcAlpha
      [] factor = "OneMinusSrcAlpha" -> ALPHA_ONE - srcAlpha

\* One wgpu::BlendComponent with operation Add applied to a channel.
BlendComponent(comp, src, dst, srcAlpha) ==
    (src * BlendFactor(comp.src_factor, srcAlpha)
       + dst * BlendFactor(comp.dst_factor, srcAlpha)) \div ALPHA_ONE

\* The fragment written over the pixel content dst under BlendState.
Blend(src, dst) ==
    [color |-> BlendComponent(BlendState.color, src.color, dst.color, src.alpha),
     alpha |-> BlendComponent(BlendState.alpha, src.alpha, dst.alpha, src.alpha)]

\* The shader quad.wgsl: the pixels a quad covers ...
Covers(q, p) == q.position <= p /\ p < q.position + q.size

\* ... and the fragment it produces there, its fill colour.
FragmentOutput(q) == [color |-> q.color, alpha |-> q.alpha]

\* One instanced draw: the instances are rasterised and blended in instance order.
RECURSIVE DrawQuads(_, _)
DrawQuads(t, quads) ==
    IF quads = <<>> THEN t
    ELSE DrawQuads([p \in Pixels |->
                       IF Covers(Head(quads), p)
                       THEN Blend(FragmentOutput(Head(quads)), t[p])
                       ELSE t[p]],
                   Tail(quads))

\* Contents of the target view before the frame, [color, alpha] per pixel:
\* opaque content at pixel 0, translucent content at pixel 1.
ExistingContent ==
    [p \in Pixels |-> IF p = 0 THEN [color |-> 1, alpha |-> ALPHA_ONE]
                               ELSE [color |-> 3, alpha |-> 2]]

\* The colour a pass clears to when its load op is not Load.
ClearContent == [p \in Pixels |-> [color |-> 0, alpha |-> 0]]

\* The GPU state before the frame: zeroed buffers, the target's contents.  Every
\* buffer record carries the number of the call whose copy wrote it (0: none).
GpuInit ==
    [uniforms |-> [data |-> ZeroUniforms, call |-> 0],
     instances |-> [s \in 1..MAX_INSTANCES |-> [quad |-> ZeroQuad, call |-> 0]],
     target |-> ExistingContent,
     passes |-> <<>>]

\* The copy recorded by the uniform write.
ExecCopyUniforms(g, c) ==
    [g EXCEPT !.uniforms = [data |-> c.data, call |-> c.call]]

\* The copy recorded by a chunk upload: records offset.. of the instance buffer.
ExecCopyInstances(g, c) ==
    [g EXCEPT !.instances =
        [s \in 1..MAX_INSTANCES |->
            IF c.offset < s /\ s <= c.offset + Len(c.data)
            THEN [quad |-> c.data[s - c.offset], call |-> c.call]
            ELSE @[s]]]

\* The records an instanced draw fetches from vertex buffer 1.
FetchInstances(g, d) ==
    [k \in 1..d.instance_count |->
        IF d.first_instance + k \in 1..MAX_INSTANCES
        THEN g.instances[d.first_instance + k]
        ELSE [quad |-> ZeroQuad, call |-> 0]]

\* A render pass: load, draw with the bound uniforms and instances, store.
ExecRenderPass(g, c) ==
    LET fetched == FetchInstances(g, c.draw)
        loaded == IF c.ops.load = "Load" THEN g.target ELSE ClearContent
        drawn == DrawQuads(loaded, [k \in 1..Len(fetched) |-> fetched[k].quad])
    IN [g EXCEPT !.target = IF c.ops.store THEN drawn ELSE ClearContent,
                 !.passes = Append(@, [call |-> c.call,
                                       uniforms |-> g.uniforms,
                                       fetched |-> fetched,
                                       draw |-> c.draw])]

ExecCommand(g, c) ==
    CASE c.op = "copy_uniforms" -> ExecCopyUniforms(g, c)
      [] c.op = "copy_instances" -> ExecCopyInstances(g, c)
      [] c.op = "render_pass" -> ExecRenderPass(g, c)

\* The commands of an encoder execute in the order they were recorded.
RECURSIVE Execute(_, _)
Execute(g, cmds) ==
    IF cmds = <<>> THEN g ELSE Execute(ExecCommand(g, Head(cmds)), Tail(cmds))

\* The GPU state once the encoder's commands, as recorded so far, have executed.
Submit(enc) == Execute(GpuInit, enc)

Init ==
    /\ pc = "idle"
    /\ calls = <<>>
    /\ uniforms = ZeroUniforms
    /\ i = 0 /\ total = 0 /\ end = 0 /\ amount = 0
    /\ encoder = <<>>
    /\ gpu = GpuInit

\* --------------------------------------------------------- Pipeline::draw

\* let a = [...]; let uniforms = Uniforms::from_a(a, scale);  (mod.rs:215-216)
DrawUniforms(transformation, s) == UniformsFromA(A_MATRIX, s)

\* Faulty variant of the buffer write: an immediate queue write, which takes
\* effect before every command of the encoder.
write_buffer_immediate(enc, cmd) == <<cmd>> \o enc

\* staging_belt.write_buffer(encoder, buffer, offset, size, device) followed by
\* copy_from_slice: a copy into `buffer` recorded at the encoder's current end.
write_buffer(enc, cmd) == Append(enc, cmd)

\* Faulty variant of the uniform upload: the write is left out.
UploadUniformsLeftOut(enc, k, u) == enc

\* The scoped block of draw that writes the uniform record to the uniform buffer.
UploadUniforms(enc, k, u) ==
    write_buffer(enc, [op |-> "copy_uniforms", call |-> k, offset |-> 0, data |-> u])

\* encoder.begin_render_pass(..) .. draw_indexed(..): a pass recorded at the
\* encoder's current end.
begin_render_pass(enc, cmd) == Append(enc, cmd)

\* Faulty variant of the loop test: while i <= total.
LoopCondInclusive(idx, tot) == idx <= tot

\* while i < total
LoopCond(idx, tot) == idx < tot

\* let end = (i + MAX_INSTANCES).min(total);
ChunkEnd(idx, tot) == Min(idx + MAX_INSTANCES, tot)

\* let amount = end - i;
ChunkAmount(idx, e) == e - idx

\* Faulty variants of the index update: a step of one; no step at all.
NextIndexByOne(idx) == idx + 1
NextIndexStuck(idx) == idx

\* i += MAX_INSTANCES;
NextIndex(idx) == idx + MAX_INSTANCES

\* &instances[i..end]; the slice exists when i <= end <= len.
SliceOk(seq, lo, hi) == 0 <= lo /\ lo <= hi /\ hi <= Len(seq)
\* Faulty variant: &instances[..end - i], every chunk taken from the start.
SliceFromStart(seq, lo, hi) == SubSeq(seq, 1, hi - lo)
Slice(seq, lo, hi) == SubSeq(seq, lo + 1, hi)

\* instance_bytes.len(): bytemuck::cast_slice of a slice of n quads.
ByteLen(n) == n * SizeOfQuad

\* Faulty variant of the pass operations: the target is cleared on load.
RenderPassOpsClear == [load |-> "Clear", store |-> TRUE]

\* wgpu::RenderPassDescriptor of the pass (load: LoadOp::Load, store: true).
RenderPassOps == [load |-> "Load", store |-> TRUE]

\* Faulty variant of the draw: the whole instance buffer, 0..MAX_INSTANCES.
DrawIndexedWholeBuffer(n) ==
    [indices |-> Len(QUAD_INDICES), base_vertex |-> 0,
     first_instance |-> 0, instance_count |-> MAX_INSTANCES]

\* render_pass.draw_indexed(0..QUAD_INDICES.len() as u32, 0, 0..amount as u32)
DrawIndexed(n) ==
    [indices |-> Len(QUAD_INDICES), base_vertex |-> 0,
     first_instance |-> 0, instance_count |-> n]

\* The caller invokes draw(instances, transformation, scale); the uniform
\* record is built.
BeginDraw ==
    /\ pc = "idle"
    /\ Len(calls) < Cardinality(CallIds)
    /\ \E instances \in SeqsUpTo(QuadSet, MaxLen - RecordedQuads),
          a \in CallArgs :
          /\ calls' = Append(calls, [instances |-> instances,
                                     transformation |-> a.transformation,
                                     scale |-> a.scale])
          /\ uniforms' = DrawUniforms(a.transformation, a.scale)
    /\ pc' = "write_uniforms"
    /\ UNCHANGED <<i, total, end, amount, encoder, gpu>>

\* The scoped write of the uniform buffer, then `let mut i = 0; let total = ..`.
RecordUniforms ==
    /\ pc = "write_uniforms"
    /\ encoder' = UploadUniforms(encoder, call, uniforms)
    /\ i' = 0
    /\ total' = Len(args.instances)
    /\ pc' = "loop"
    /\ UNCHANGED <<calls, uniforms, end, amount>>

WriteUniforms == RecordUniforms /\ gpu' = Submit(encoder')

\* The loop test holds: `end` and `amount` of the iteration.
LoopEnter ==
    /\ pc = "loop"
    /\ LoopCond(i, total)
    /\ end' = ChunkEnd(i, total)
    /\ amount' = ChunkAmount(i, end')
    /\ pc' = "upload"
    /\ UNCHANGED <<calls, uniforms, i, total, encoder, gpu>>

\* The loop test fails: draw returns.
LoopExit ==
    /\ pc = "loop"
    /\ ~LoopCond(i, total)
    /\ pc' = "idle"
    /\ uniforms' = ZeroUniforms
    /\ i' = 0 /\ total' = 0 /\ end' = 0 /\ amount' = 0
    /\ UNCHANGED <<calls, encoder, gpu>>

\* The chunk's bytes are staged into the instance buffer at offset 0.  The
\* slice panics when out of range, BufferSize::new(0).unwrap() panics, and a
\* copy past the end of the destination buffer is a fatal validation error.
RecordUpload ==
    /\ pc = "upload"
    /\ IF /\ SliceOk(args.instances, i, end)
          /\ ByteLen(amount) > 0
          /\ ByteLen(amount) <= InstanceBufferSize
       THEN /\ encoder' = write_buffer(encoder,
                              [op |-> "copy_instances", call |-> call, offset |-> 0,
                               data |-> Slice(args.instances, i, end)])
            /\ pc' = "pass"
       ELSE /\ pc' = "aborted"
            /\ UNCHANGED encoder
    /\ UNCHANGED <<calls, uniforms, i, total, end, amount>>

UploadChunk == RecordUpload /\ gpu' = Submit(encoder')

\* The render pass of the chunk with its one indexed, instanced draw.
RecordPass ==
    /\ pc = "pass"
    /\ encoder' = begin_render_pass(encoder,
                      [op |-> "render_pass", call |-> call,
                       ops |-> RenderPassOps, draw |-> DrawIndexed(amount)])
    /\ pc' = "advance"
    /\ UNCHANGED <<calls, uniforms, i, total, end, amount>>

RenderPass == RecordPass /\ gpu' = Submit(encoder')

\* i += MAX_INSTANCES
Advance ==
    /\ pc = "advance"
    /\ i' = NextIndex(i)
    /\ pc' = "loop"
    /\ UNCHANGED <<calls, uniforms, total, end, amount, encoder, gpu>>

\* The steps of a running call as far as the caller's encoder sees them.
DrawRecord ==
    \/ RecordUniforms
    \/ LoopEnter
    \/ LoopExit
    \/ RecordUpload
    \/ RecordPass
    \/ Advance

\* The steps of a running call.
DrawStep ==
    \/ WriteUniforms
    \/ LoopEnter
    \/ LoopExit
    \/ UploadChunk
    \/ RenderPass
    \/ Advance

Next ==
    \/ BeginDraw
    \/ DrawStep

Spec == Init /\ [][Next]_vars

\* ------------------------------------------------------ auxiliary definitions

CeilDiv(n, c) == (n + c - 1) \div c

Last(seq) == seq[Len(seq)]

RECURSIVE Concat(_)
Concat(seqs) == IF seqs = <<>> THEN <<>> ELSE Head(seqs) \o Concat(Tail(seqs))

\* Call k has returned.
Finished(k) == k < call \/ (k = call /\ pc = "idle")

\* The commands call k recorded, in recorded order, and those of one kind.
CmdsOf(k) == LET T(c) == c.call = k IN SelectSeq(encoder, T)
OpsOf(k, op) == LET T(c) == c.call = k /\ c.op = op IN SelectSeq(encoder, T)

\* The passes of call k as they executed.
ExecutedPassesOf(k) == LET T(x) == x.call = k IN SelectSeq(gpu.passes, T)

\* The quads of every call so far, in submission order.
AllQuads == Concat([k \in 1..Len(calls) |-> calls[k].instances])

\* The quads of a sequence that cover pixel p / that are not fully transparent.
Covering(quads, p) == LET T(q) == Covers(q, p) IN SelectSeq(quads, T)
Visible(quads) == LET T(q) == q.alpha # 0 IN SelectSeq(quads, T)

\* ------------------------------------------------------------------ claims

\* C1: a call that returned with N instances issued exactly ceil(N/MAX_INSTANCES)
\* render passes; every pass but the last draws MAX_INSTANCES instances and the
\* last draws N mod MAX_INSTANCES (MAX_INSTANCES when that is 0); no pass is
\* ever recorded with zero instances.
C1_ChunkCounts ==
    /\ \A n \in 1..Len(encoder) :
          encoder[n].op = "render_pass" => encoder[n].draw.instance_count > 0
    /\ \A k \in 1..Len(calls) : Finished(k) =>
          LET N == Len(calls[k].instances)
              passes == OpsOf(k, "render_pass")
              M == Len(passes)
          IN /\ M = CeilDiv(N, MAX_INSTANCES)
             /\ \A j \in 1..M : j < M =>
                   passes[j].draw.instance_count = MAX_INSTANCES
             /\ M > 0 => passes[M].draw.instance_count =
                   (IF N % MAX_INSTANCES = 0 THEN MAX_INSTANCES
                                             ELSE N % MAX_INSTANCES)

\* A call returned after more than two full chunks and a partial one.
C1_Witness ==
    /\ pc = "idle" /\ call >= 1
    /\ Len(args.instances) > 2 * MAX_INSTANCES
    /\ Len(args.instances) % MAX_INSTANCES # 0
    /\ Len(OpsOf(call, "render_pass")) = 3

\* C2: the chunks a call uploads, concatenated in recorded order, are always a
\* prefix of its input and the whole input once it has returned; the j-th pass
\* of the call draws as many instances as the j-th chunk holds.
C2_ChunksInOrder ==
    \A k \in 1..Len(calls) :
       LET input == calls[k].instances
           uploads == OpsOf(k, "copy_instances")
           passes == OpsOf(k, "render_pass")
           drawn == Concat([j \in 1..Len(uploads) |-> uploads[j].data])
       IN /\ Len(drawn) <= Len(input)
          /\ drawn = SubSeq(input, 1, Len(drawn))
          /\ Finished(k) => drawn = input /\ Len(passes) = Len(uploads)
          /\ Len(passes) <= Len(uploads)
          /\ \A j \in 1..Len(passes) :
                passes[j].draw.instance_count = Len(uploads[j].data)

\* A call returned whose input spans three chunks of pairwise different content.
C2_Witness ==
    /\ pc = "idle" /\ call >= 1
    /\ Len(OpsOf(call, "copy_instances")) = 3
    /\ args.instances[1] # args.instances[MAX_INSTANCES + 1]
    /\ args.instances[1] # args.instances[2 * MAX_INSTANCES + 1]

\* C3: every uniform record a call uploads is the one built from the
\* transformation and the scale the caller passed.
C3_UniformsFromArguments ==
    \A n \in 1..Len(encoder) :
       encoder[n].op = "copy_uniforms" =>
          encoder[n].data = UniformsNew(calls[encoder[n].call].transformation,
                                        calls[encoder[n].call].scale)

\* C4: once a call is past its uniform write, its first recorded command is
\* that write and it records no other one, whatever N is; every pass of the
\* call executes with that record in the uniform buffer.
C4_UniformWrittenOnce ==
    \A k \in 1..Len(calls) : (k < call \/ pc # "write_uniforms") =>
       LET cmds == CmdsOf(k)
       IN /\ Len(OpsOf(k, "copy_uniforms")) = 1
          /\ cmds[1].op = "copy_uniforms"
          /\ \A j \in 1..Len(ExecutedPassesOf(k)) :
                ExecutedPassesOf(k)[j].uniforms.data = cmds[1].data

\* A call with no instances and a call with several chunks have both returned.
C4_Witness ==
    /\ pc = "idle"
    /\ \E k \in 1..Len(calls) :
          calls[k].instances = <<>> /\ Len(CmdsOf(k)) = 1
    /\ \E k \in 1..Len(calls) : Len(ExecutedPassesOf(k)) >= 2

\* C5: inside the loop the chunk holds between 1 and MAX_INSTANCES instances,
\* its byte length is neither zero nor larger than the instance buffer, and
\* draw never aborts.
C5_ChunkFits ==
    /\ pc # "aborted"
    /\ pc \in {"upload", "pass", "advance"} =>
          /\ amount \in 1..MAX_INSTANCES
          /\ ByteLen(amount) > 0
          /\ ByteLen(amount) <= InstanceBufferSize
          /\ SliceOk(args.instances, i, end)

\* A full chunk after the first one has been uploaded.
C5_Witness ==
    /\ pc = "pass" /\ i > 0
    /\ amount = MAX_INSTANCES
    /\ ByteLen(amount) = InstanceBufferSize

\* C6: when the calls have returned, a pixel whose last covering quad is opaque
\* shows that quad's colour.
C6_PaintersOrder ==
    pc = "idle" =>
       \A p \in Pixels :
          LET cover == Covering(AllQuads, p)
          IN (cover # <<>> /\ Last(cover).alpha = ALPHA_ONE) =>
                gpu.target[p].color = Last(cover).color

\* [A, B] overlap at pixel 0, B is opaque and of another colour, and A ends a
\* chunk while B starts the next one.
C6_Witness ==
    /\ pc = "idle" /\ call = 1
    /\ Len(args.instances) = MAX_INSTANCES + 1
    /\ LET A == args.instances[MAX_INSTANCES]
           B == args.instances[MAX_INSTANCES + 1]
       IN /\ Covers(A, 0) /\ Covers(B, 0)
          /\ B.alpha = ALPHA_ONE
          /\ A.color # B.color
          /\ gpu.target[0].color = B.color

\* C7: every pass loads and stores the target, and when the calls have
\* returned the target holds what drawing the not fully transparent quads
\* alone, over the contents before the frame, gives: fully transparent quads
\* change neither colour nor alpha, and nothing drawn or present earlier is
\* lost between passes.
C7_ContentPreserved ==
    /\ \A n \in 1..Len(encoder) :
          encoder[n].op = "render_pass" =>
             encoder[n].ops.load = "Load" /\ encoder[n].ops.store
    /\ pc = "idle" =>
          /\ gpu.target = DrawQuads(ExistingContent, Visible(AllQuads))
          /\ \A p \in Pixels :
                Covering(Visible(AllQuads), p) = <<>> =>
                   gpu.target[p] = ExistingContent[p]

\* A transparent quad alone in the last chunk was drawn over pixel 1, which
\* still holds the contents it had before the frame.
C7_Witness ==
    /\ pc = "idle" /\ call >= 1
    /\ Len(args.instances) = MAX_INSTANCES + 1
    /\ Last(args.instances).alpha = 0
    /\ Covers(Last(args.instances), 1)
    /\ Covering(Visible(AllQuads), 1) = <<>>
    /\ gpu.target[1] = ExistingContent[1]
    /\ gpu.target[0] # ExistingContent[0]

\* C8: every pass is recorded right after an upload of its call at offset 0;
\* when the j-th pass of a call executes it fetches exactly the j-th chunk of
\* the call's input, in input order, with 6 indices, base vertex 0 and the
\* instance range 0..chunk size.
C8_PassReadsItsChunk ==
    /\ \A n \in 1..Len(encoder) :
          encoder[n].op = "render_pass" =>
             /\ n > 1
             /\ encoder[n - 1].op = "copy_instances"
             /\ encoder[n - 1].call = encoder[n].call
             /\ encoder[n - 1].offset = 0
    /\ \A k \in 1..Len(calls) :
          LET input == calls[k].instances
              passes == ExecutedPassesOf(k)
          IN \A j \in 1..Len(passes) :
                LET lo == (j - 1) * MAX_INSTANCES
                    hi == Min(j * MAX_INSTANCES, Len(input))
                IN /\ [m \in 1..Len(passes[j].fetched) |->
                           passes[j].fetched[m].quad] = SubSeq(input, lo + 1, hi)
                   /\ passes[j].draw = [indices |-> 6, base_vertex |-> 0,
                                        first_instance |-> 0,
                                        instance_count |-> hi - lo]

\* A partial chunk was drawn while the instance buffer still held, past the
\* chunk, a different quad left by the full chunk before it.
C8_Witness ==
    /\ pc = "idle" /\ call >= 1
    /\ Len(args.instances) = 2 * MAX_INSTANCES - 1
    /\ Last(gpu.passes).draw.instance_count = MAX_INSTANCES - 1
    /\ gpu.instances[MAX_INSTANCES].call = call
    /\ gpu.instances[MAX_INSTANCES].quad # gpu.instances[1].quad

\* C9: with several calls recorded one after another into one encoder, every
\* pass executes with the uniform record and the instance records that its own
\* call uploaded.
C9_PassReadsOwnCall ==
    \A n \in 1..Len(gpu.passes) :
       LET pass == gpu.passes[n]
       IN /\ pass.uniforms.call = pass.call
          /\ pass.uniforms.data = OpsOf(pass.call, "copy_uniforms")[1].data
          /\ \A m \in 1..Len(pass.fetched) : pass.fetched[m].call = pass.call

\* Two calls with different scales have both returned, each with a pass.
C9_Witness ==
    /\ pc = "idle" /\ call = 2
    /\ calls[1].scale # calls[2].scale
    /\ Len(ExecutedPassesOf(1)) >= 2
    /\ Len(ExecutedPassesOf(2)) >= 1
    /\ Len(calls[2].instances) < MAX_INSTANCES

\* The loop iterations still to run from index idx.
Remaining(idx, tot) == IF idx >= tot THEN 0 ELSE CeilDiv(tot - idx, MAX_INSTANCES)

\* The number of steps a running call is away from returning (-1: never).
StepsToReturn ==
    CASE pc = "idle" -> 0
      [] pc = "write_uniforms" -> 4 * Remaining(0, Len(args.instances)) + 2
      [] pc = "loop" -> 4 * Remaining(i, total) + 1
      [] pc = "upload" -> 4 * Remaining(i, total)
      [] pc = "pass" -> 4 * Remaining(i, total) - 1
      [] pc = "advance" -> 4 * Remaining(i, total) - 2
      [] OTHER -> -1

\* C10: a call that has been entered returns: it can always take its next
\* step, and every step brings it one step closer to returning, because the
\* loop index starts at 0, every iteration adds MAX_INSTANCES > 0 to it and
\* the loop is left exactly when the index has reached N; by then every input
\* quad has been uploaded and drawn.
C10_DrawTerminates ==
    /\ [](pc # "idle" => StepsToReturn > 0 /\ ENABLED DrawRecord)
    /\ [][ /\ (pc # "idle" => StepsToReturn' = StepsToReturn - 1)
           /\ (pc = "write_uniforms" => i' = 0 /\ total' = Len(args.instances))
           /\ (pc = "advance" => i' = i + MAX_INSTANCES /\ i' > i /\ total' = total)
           /\ (pc = "loop" => (pc' = "idle" <=> i >= total))
           /\ (pc = "loop" /\ pc' = "idle" =>
                 /\ Concat([j \in 1..Len(OpsOf(call, "copy_instances")) |->
                              OpsOf(call, "copy_instances")[j].data]) = args.instances
                 /\ Len(OpsOf(call, "render_pass")) =
                       Len(OpsOf(call, "copy_instances"))) ]_vars

\* A call of more than two chunks has returned.
C10_Witness ==
    /\ pc = "idle" /\ call >= 1
    /\ Len(args.instances) = MaxLen
    /\ Len(OpsOf(call, "render_pass")) > 2

====
